---- MODULE Spec2Model ----
(***************************************************************************)
(* Red Day DCA Alerter: the monitoring process (red_day_dca_alerter/main.py)*)
(* and the manual trigger script (trigger_now.py), two operating-system    *)
(* processes that share the state file dca_state.json.                     *)
(*                                                                         *)
(* Each process is cut into steps at its I/O.  The monitoring process has  *)
(* one step per file read, price fetch, file write and e-mail attempt, so  *)
(* that the clock, a crash, a failed write and the script can fall between *)
(* any two of them.  The script has two steps, up to its e-mails and its   *)
(* final write, so that the monitoring process can fall between its read   *)
(* and its write of the state file.                                        *)
(*                                                                         *)
(* Dates are integers (UTC day numbers), prices are integers in cents,     *)
(* drops are kept in basis points (hundredths of a percent).               *)
(***************************************************************************)
EXTENDS Integers, Sequences, FiniteSets, TLC

(***************************************************************************)
(* Bounds of the model (not program constants).                            *)
(***************************************************************************)
MaxDay == 1
MaxManualRuns == 1
MaxFaults == 1
NearMax == 1

(***************************************************************************)
(* Program constants.                                                      *)
(***************************************************************************)
MAX_TRIGGERS == 15
\* thresholds in tenths of a percent: -4.7 and -3.3
INTRADAY_DIP_THRESHOLD == -47
CLOSE_TO_CLOSE_THRESHOLD == -33
\* trigger_now.get_btc_price's fallback, 97000.00, in cents
FallbackPrice == 9700000
\* Python's None, for an optional date or price
None == -999999

(***************************************************************************)
(* The environment: what the price feed can answer.                        *)
(***************************************************************************)
\* reference 100.00
RefClose == 100 * 100
\* another reference, 130.00
AltClose == 130 * 100
\* ticker answers: failure, 95.30 (-4.70 % of 100.00, -26.69 % of 130.00),
\* 123.89 (-4.70 % of 130.00, +23.89 % of 100.00)
TickerAnswers == {None, 9530, 12389}
\* klines (previous candle) answers: failure, 0.00 or a reference close
KlineAnswers == {None, 0, RefClose, AltClose}
\* latest-candle answers: failure, 96.70 and 96.71 (-3.30 % and -3.29 % of
\* 100.00, about -25.6 % of 130.00)
TodayCloseAnswers == {None, 9670, 9671}

VARIABLES
    today,      \* the UTC date of the wall clock
    file,       \* dca_state.json: [status, data]
    mpc,        \* monitoring process: position
    mstate,     \* monitoring process: the state dict of the running cycle
    myclose,    \* monitoring process: yesterday_close fetched by the cycle
    mprice,     \* monitoring process: current_price, or the latest candle's close
    mcday,      \* monitoring process: the day the latest candle closes with
    mtoday,     \* monitoring process: `today` of the running cycle (lines 481, 533)
    mnum,       \* monitoring process: trigger_number of the running execute_trigger
    msaved,     \* did the save_state of the running execute_trigger succeed
    mfail,      \* did a send_email of the running execute_trigger return False
    mlog,       \* monitoring process: how its last finished cycle ended
    faults,     \* number of failed or interrupted writes so far
    tpc,        \* manual script: position
    tstate,     \* manual script: its state dict
    tcur,       \* manual script: current_trigger
    tprice,     \* manual script: btc_price
    runs,       \* number of manual script runs started so far
    emails,     \* every send_email attempt so far
    commits,    \* number of trigger executions whose write succeeded
    dipday,     \* the date of the last intraday execute_trigger
    cut         \* the trigger whose notifications a crash cut short

vars == <<today, file, mpc, mstate, myclose, mprice, mcday, mtoday, mnum, msaved,
          mfail, mlog, faults, tpc, tstate, tcur, tprice, runs, emails,
          commits, dipday, cut>>

mainLocals == <<mstate, myclose, mprice, mcday, mtoday, mnum, msaved, mfail>>
mainVars == <<mpc, mstate, myclose, mprice, mcday, mtoday, mnum, msaved, mfail,
             mlog>>
manualVars == <<tpc, tstate, tcur, tprice, runs>>

(***************************************************************************)
(* State management                                                        *)
(***************************************************************************)
StateKeys ==
    {"trigger_count", "last_trigger_date", "yesterday_close",
     "yesterday_close_date", "trigger_history"}

default_state ==
    [trigger_count |-> 0,
     last_trigger_date |-> None,
     yesterday_close |-> None,
     yesterday_close_date |-> None,
     trigger_history |-> <<>>]

NoFile == [status |-> "absent", data |-> default_state]
CorruptFile == [status |-> "corrupt", data |-> default_state]
GoodFile(s) == [status |-> "ok", data |-> s]

\* main.load_state: the stored dict with missing keys back-filled; the
\* defaults when the file is absent or json.load raises
load_state(f) ==
    IF f.status = "ok"
    THEN [k \in StateKeys |->
            IF k \in DOMAIN f.data THEN f.data[k] ELSE default_state[k]]
    ELSE default_state

\* trigger_now.load_state: the stored dict as it is; the defaults when the
\* file is absent or json.load raises
manual_load_state(f) ==
    IF f.status = "ok" THEN f.data ELSE default_state

\* open(STATE_FILE, 'w') + json.dump, when it raises: open() raised and the
\* file is as before, or the dump raised after open() truncated the file
WriteFailures(f) == {f, CorruptFile}

(***************************************************************************)
(* Price arithmetic                                                        *)
(***************************************************************************)
\* The drop is computed in IEEE-754 doubles.  Away from a threshold the
\* rounding (about 1e-15) cannot change the comparison of prices quoted in
\* cents; for a drop that is exactly a threshold it decides the comparison.
\* The pairs <<price, close>> of the feed that lie exactly on a threshold and
\* what ((price - close) / close) * 100 evaluates to:
\*    95.30 against 100.00:  -4.700000000000003  <= -4.7
\*   123.89 against 130.00:  -4.699999999999999  >  -4.7
\*    96.70 against 100.00:  -3.299999999999997  >  -3.3
RoundedDown == {<<9530, 10000>>}

\* ((price - close) / close) * 100 <= threshold as the doubles decide it,
\* threshold in tenths of a percent, for close # 0
DropAtMost(price, close, tenths) ==
    LET drop == (price - close) * 1000
        limit == tenths * close
    IN  IF drop = limit
        THEN <<price, close>> \in RoundedDown
        ELSE IF close > 0 THEN drop < limit ELSE drop > limit

\* ((price - close) / close) * 100 in basis points, for close # 0
DropPct(price, close) == ((price - close) * 10000) \div close

(***************************************************************************)
(* execute_trigger's and the manual script's state updates                 *)
(***************************************************************************)
TriggerRecord(number, date, price, close, type) ==
    [number |-> number, date |-> date, time |-> date, price |-> price,
     yesterday_close |-> close, drop_pct |-> DropPct(price, close),
     type |-> type]

ManualRecord(number, date, price) ==
    [number |-> number, date |-> date, time |-> date, price |-> price,
     type |-> "Manual trigger"]

\* lines 559-573: the dict after the increment, the date and the append
Fired(state, date, price, close, type) ==
    [state EXCEPT
        !.trigger_count = @ + 1,
        !.last_trigger_date = date,
        !.trigger_history =
            Append(@, TriggerRecord(state.trigger_count + 1, date, price,
                                    close, type))]

\* a manual update that appends the record and leaves last_trigger_date
ManualFired_KeepsDate(state, number, date, price) ==
    [state EXCEPT
        !.trigger_count = number,
        !.trigger_history = Append(@, ManualRecord(number, date, price))]

\* trigger_now lines 280-288
ManualFired(state, number, date, price) ==
    [state EXCEPT
        !.trigger_count = number,
        !.last_trigger_date = date,
        !.trigger_history = Append(@, ManualRecord(number, date, price))]

\* lines 495-497
Refreshed(state, close, date) ==
    [state EXCEPT !.yesterday_close = close, !.yesterday_close_date = date]

\* one send_email attempt: the recipient kind, the trigger number in the
\* subject, the sending process, whether that process had written the
\* trigger to the state file before, and how many attempts with the same
\* recipient kind and number came before it
Email(log, to, number, by, saved) ==
    [to |-> to, number |-> number, by |-> by, saved |-> saved,
     copy |-> Cardinality({e \in log : e.to = to /\ e.number = number})]

send_email(log, to, number, by, saved) ==
    log \cup {Email(log, to, number, by, saved)}

\* the state after the first k of n intraday triggers fired on the n days
\* before day 0, one a day, each after the refresh of its day
RECURSIVE EarlierRun(_, _)
EarlierRun(k, n) ==
    IF k = 0 THEN default_state
    ELSE Fired(Refreshed(EarlierRun(k - 1, n), RefClose, k - n - 2),
               k - n - 1, 9530, RefClose, "Intraday dip")

\* the state file left by n earlier triggers
Earlier(n) == EarlierRun(n, n)

(***************************************************************************)
(* Initial states: the first run (no file), a file of an older schema, or a *)
(* file left by earlier triggers; the monitoring process is starting, the  *)
(* script is not running.                                                  *)
(***************************************************************************)
NoCut == [number |-> 0, date |-> None]

\* a state file of an older schema, written before the reference close and
\* the history were kept: the keys load_state has to back-fill are missing
OlderFile == GoodFile([trigger_count |-> 0, last_trigger_date |-> None])

Init ==
    /\ today = 0
    /\ file \in {NoFile, OlderFile, GoodFile(Earlier(MAX_TRIGGERS - NearMax))}
    /\ commits = load_state(file).trigger_count
    /\ dipday = load_state(file).last_trigger_date
    /\ mpc = "start"
    /\ mstate = default_state
    /\ myclose = None
    /\ mprice = None
    /\ mcday = None
    /\ mtoday = None
    /\ mnum = 0
    /\ msaved = FALSE
    /\ mfail = FALSE
    /\ mlog = ""
    /\ faults = 0
    /\ tpc = "idle"
    /\ tstate = default_state
    /\ tcur = 0
    /\ tprice = None
    /\ runs = 0
    /\ emails = {}
    /\ cut = NoCut

(***************************************************************************)
(* The wall clock                                                          *)
(***************************************************************************)
Tick ==
    /\ today < MaxDay
    /\ today' = today + 1
    /\ UNCHANGED <<file, mainVars, faults, manualVars, emails, commits,
                   dipday, cut>>

(***************************************************************************)
(* The monitoring process: main(), check_and_trigger, check_daily_close,   *)
(* execute_trigger, send_completion_email                                  *)
(***************************************************************************)
\* the positions inside execute_trigger after its save_state
ExecPcs == {"broker", "personal", "completion"}

\* a handler returns to the scheduler loop; its locals die
Return(outcome) ==
    /\ mpc' = "pending"
    /\ mlog' = outcome
    /\ mstate' = default_state
    /\ myclose' = None
    /\ mprice' = None
    /\ mcday' = None
    /\ mtoday' = None
    /\ mnum' = 0
    /\ msaved' = FALSE
    /\ mfail' = FALSE

\* the process ends where it is (killed, or an exception nothing catches)
Dies ==
    /\ mpc' = "dead"
    /\ cut' = (IF mpc \in ExecPcs /\ msaved
               THEN [number |-> mnum, date |-> mstate.last_trigger_date]
               ELSE cut)
    /\ mstate' = default_state
    /\ myclose' = None
    /\ mprice' = None
    /\ mcday' = None
    /\ mtoday' = None
    /\ mnum' = 0
    /\ msaved' = FALSE
    /\ mfail' = FALSE
    /\ mlog' = ""

\* a save_state whose write never reaches the file
SaveState_Unwritten(new, isTrigger) ==
    /\ file' = file
    /\ faults' = faults
    /\ msaved' = isTrigger
    /\ commits' = (IF isTrigger THEN commits + 1 ELSE commits)
    /\ cut' = NoCut

\* main.save_state(new): the write succeeds, or it raises and the exception
\* is logged and swallowed
SaveState(new, isTrigger) ==
    /\ \/ /\ file' = GoodFile(new)
          /\ faults' = faults
          /\ msaved' = isTrigger
          /\ commits' = (IF isTrigger THEN commits + 1 ELSE commits)
       \/ /\ faults < MaxFaults
          /\ file' \in WriteFailures(file)
          /\ faults' = faults + 1
          /\ msaved' = FALSE
          /\ commits' = commits
    /\ cut' = NoCut

\* main(), lines 662-670: exit when complete, else the initial check
MainStart ==
    /\ mpc = "start"
    /\ IF load_state(file).trigger_count >= MAX_TRIGGERS
          THEN mpc' = "exited"
          ELSE mpc' = "check"
    /\ UNCHANGED <<today, dipday, file, mainLocals, mlog, faults, manualVars, emails,
                   commits, cut>>

\* a terminal guard that is off by one
TerminalGuard_OffByOne(state) == state.trigger_count > MAX_TRIGGERS

\* lines 476 and 530: the terminal guard
TerminalGuard(state) == state.trigger_count >= MAX_TRIGGERS

\* a dedup guard that compares the wrong date field
DedupGuard_WrongField(state, date) == state.yesterday_close_date = date

\* lines 484 and 536: the dedup guard
DedupGuard(state, date) == state.last_trigger_date = date

\* an availability test that lets every answer through
Unavailable_Never(answer) == FALSE

\* lines 490, 503 and 543: `is None`
Unavailable(answer) == answer = None

\* how a cycle of check_and_trigger ends when a price request failed (lines
\* 490-492 and 503-505); the cycle that comes next is marked "retry"
FetchFailed == {"noref", "noprice"}

\* lines 473-486 and 527-537: load, terminal guard first, dedup guard
\* second; the cycle goes on to `next` when both let it
LoadAndGuard(next) ==
    IF TerminalGuard(load_state(file))
    THEN Return("complete")
    ELSE IF DedupGuard(load_state(file), today)
    THEN Return("already")
    ELSE /\ mpc' = next
         /\ mstate' = load_state(file)
         /\ mtoday' = today
         /\ mlog' = (IF mlog \in FetchFailed THEN "retry" ELSE "")
         /\ UNCHANGED <<myclose, mprice, mcday, mnum, msaved, mfail>>

\* check_and_trigger, lines 473-486
CheckAndTriggerLoad ==
    /\ mpc \in {"check", "pending"}
    /\ LoadAndGuard("cat_ref")
    /\ UNCHANGED <<today, dipday, file, faults, manualVars, emails, commits, cut>>

\* check_and_trigger, lines 489-499: the reference close and its refresh
CheckAndTriggerRef ==
    /\ mpc = "cat_ref"
    /\ \E close \in KlineAnswers :
          IF Unavailable(close)
          THEN Return("noref") /\ UNCHANGED <<file, faults, commits, cut>>
          ELSE /\ mpc' = "cat_price"
               /\ myclose' = close
               /\ UNCHANGED <<mprice, mcday, mtoday, mnum, mfail, mlog>>
               /\ IF mstate.yesterday_close_date # today - 1
                     THEN /\ mstate' = Refreshed(mstate, close, today - 1)
                          /\ SaveState(Refreshed(mstate, close, today - 1), FALSE)
                     ELSE UNCHANGED <<mstate, file, faults, msaved, commits, cut>>
    /\ UNCHANGED <<today, dipday, manualVars, emails>>

\* execute_trigger, lines 559-576: increment, record, save
ExecuteTrigger(price, close, type) ==
    /\ mstate' = Fired(mstate, today, price, close, type)
    /\ mnum' = mstate.trigger_count + 1
    /\ SaveState(Fired(mstate, today, price, close, type), TRUE)
    /\ mpc' = "broker"
    /\ dipday' = (IF type = "Intraday dip" THEN today ELSE dipday)
    /\ UNCHANGED <<myclose, mprice, mcday, mtoday, mfail, mlog>>

\* lines 508-522 and 547-552: the drop and the threshold; the division
\* raises ZeroDivisionError for a reference close of 0, which nothing catches
Evaluate(price, close, threshold, type) ==
    IF close = 0
    THEN Dies /\ UNCHANGED <<file, faults, commits, dipday>>
    ELSE IF DropAtMost(price, close, threshold)
    THEN ExecuteTrigger(price, close, type)
    ELSE Return("nodrop") /\ UNCHANGED <<file, faults, commits, dipday, cut>>

\* a failed price request that marks the date as done
CheckAndTriggerPrice_MarksDay ==
    /\ mpc = "cat_price"
    /\ \E price \in TickerAnswers :
          IF Unavailable(price)
          THEN /\ Return("noprice")
               /\ file' = GoodFile([mstate EXCEPT !.last_trigger_date = today])
          ELSE /\ mpc' = "cat_eval"
               /\ mprice' = price
               /\ UNCHANGED <<mstate, myclose, mcday, mtoday, mnum, msaved, mfail, mlog>>
               /\ file' = file
    /\ UNCHANGED <<today, dipday, faults, manualVars, emails, commits, cut>>

\* check_and_trigger, lines 502-505: the current price
CheckAndTriggerPrice ==
    /\ mpc = "cat_price"
    /\ \E price \in TickerAnswers :
          IF Unavailable(price)
          THEN Return("noprice")
          ELSE /\ mpc' = "cat_eval"
               /\ mprice' = price
               /\ UNCHANGED <<mstate, myclose, mcday, mtoday, mnum, msaved, mfail, mlog>>
    /\ UNCHANGED <<today, dipday, file, faults, manualVars, emails, commits, cut>>

\* check_and_trigger, lines 508-522
CheckAndTriggerEval ==
    /\ mpc = "cat_eval"
    /\ Evaluate(mprice, myclose, INTRADAY_DIP_THRESHOLD, "Intraday dip")
    /\ UNCHANGED <<today, manualVars, emails>>

\* check_daily_close, lines 527-537
CheckDailyCloseLoad ==
    /\ mpc = "pending"
    /\ LoadAndGuard("cdc_fetch")
    /\ UNCHANGED <<today, dipday, file, faults, manualVars, emails, commits, cut>>

\* get_today_close, lines 178-186 and 198-200: the klines request with
\* limit 1 answers the latest daily candle, the one of the current date,
\* which closes with that date; a failed request makes today_close None
CheckDailyCloseCandle ==
    /\ mpc = "cdc_fetch"
    /\ \E answer \in TodayCloseAnswers :
          IF Unavailable(answer)
          THEN Return("noclose")
          ELSE /\ mpc' = "cdc_eval"
               /\ mprice' = answer
               /\ mcday' = today
               /\ UNCHANGED <<mstate, myclose, mtoday, mnum, msaved, mfail, mlog>>
    /\ UNCHANGED <<today, dipday, file, faults, manualVars, emails, commits, cut>>

\* get_today_close, lines 188-197: the candle's close when the clock is past
\* its close time, else None
get_today_close(price, closeDay, now) ==
    IF now > closeDay THEN price ELSE None

\* check_daily_close, lines 540-552
CheckDailyCloseFetch ==
    /\ mpc = "cdc_eval"
    /\ \E close \in KlineAnswers :
          IF Unavailable(get_today_close(mprice, mcday, today))
          THEN Return("unfinished") /\ UNCHANGED <<file, faults, commits, dipday, cut>>
          ELSE IF Unavailable(close)
          THEN Return("noref_daily") /\ UNCHANGED <<file, faults, commits, dipday, cut>>
          ELSE Evaluate(mprice, close, CLOSE_TO_CLOSE_THRESHOLD, "Close-to-close")
    /\ UNCHANGED <<today, manualVars, emails>>

\* what a send_email call returns, lines 207-233: True, or False when the
\* password is missing or the SMTP exchange raised
SendResults == BOOLEAN

\* a broker e-mail whose failure undoes the trigger in the state file
SendBroker_RollsBack ==
    /\ mpc = "broker"
    /\ emails' = send_email(emails, "broker", mnum, "main", msaved)
    /\ \E broker_sent \in SendResults :
          /\ mfail' = (mfail \/ ~broker_sent)
          /\ file' = (IF broker_sent THEN file ELSE GoodFile(
                        [mstate EXCEPT
                            !.trigger_count = @ - 1,
                            !.trigger_history = SubSeq(@, 1, Len(@) - 1)]))
    /\ mpc' = "personal"
    /\ UNCHANGED <<today, dipday, mstate, myclose, mprice, mcday, mtoday, mnum, msaved,
                   mlog, faults, manualVars, commits, cut>>

\* execute_trigger, lines 585-588
SendBroker ==
    /\ mpc = "broker"
    /\ emails' = send_email(emails, "broker", mnum, "main", msaved)
    /\ \E broker_sent \in SendResults : mfail' = (mfail \/ ~broker_sent)
    /\ mpc' = "personal"
    /\ UNCHANGED <<today, dipday, file, mstate, myclose, mprice, mcday, mtoday, mnum, msaved,
                   mlog, faults, manualVars, commits, cut>>

\* execute_trigger, lines 591-596
SendPersonal ==
    /\ mpc = "personal"
    /\ emails' = send_email(emails, "personal", mnum, "main", msaved)
    /\ IF mnum >= MAX_TRIGGERS
          THEN /\ mpc' = "completion"
               /\ \E personal_sent \in SendResults :
                     mfail' = (mfail \/ ~personal_sent)
               /\ UNCHANGED <<mstate, myclose, mprice, mcday, mtoday, mnum, msaved, mlog>>
          ELSE Return("fired")
    /\ UNCHANGED <<today, dipday, file, faults, manualVars, commits, cut>>

\* the keys send_completion_email reads of every record, lines 613-616
CompletionKeys == {"number", "date", "price", "drop_pct"}

\* send_completion_email, lines 604-649: reloads the state; a record
\* without one of the keys raises KeyError, which nothing catches
SendCompletion ==
    /\ mpc = "completion"
    /\ LET history == load_state(file).trigger_history IN
          IF \A i \in 1..Len(history) : CompletionKeys \subseteq DOMAIN history[i]
          THEN /\ emails' = send_email(emails, "completion", mnum, "main", msaved)
               /\ Return("fired")
               /\ UNCHANGED cut
          ELSE /\ Dies
               /\ UNCHANGED emails
    /\ UNCHANGED <<today, dipday, file, faults, manualVars, commits>>

\* main(), lines 683-691: nothing more is due; sleep, reload, exit when complete
LoopRecheck ==
    /\ mpc = "pending"
    /\ mpc' = (IF load_state(file).trigger_count >= MAX_TRIGGERS
                 THEN "exited" ELSE "pending")
    /\ UNCHANGED <<today, dipday, file, mainLocals, mlog, faults, manualVars, emails,
                   commits, cut>>

\* the process is killed (or the host goes down) between two steps
Crash ==
    /\ mpc \notin {"dead", "exited"}
    /\ Dies
    /\ UNCHANGED <<today, dipday, file, faults, manualVars, emails, commits>>

\* the operator (or a supervisor) starts main() again
Restart ==
    /\ mpc \in {"dead", "exited"}
    /\ mpc' = "start"
    /\ UNCHANGED <<today, dipday, file, mainLocals, mlog, faults, manualVars, emails,
                   commits, cut>>

(***************************************************************************)
(* The manual trigger script, trigger_now.py __main__                      *)
(***************************************************************************)
\* what the script's get_btc_price meets: a failure or a price
ManualTickerAnswers == {None, 9531}

\* get_btc_price, lines 53-59: any failure is replaced by the fallback
get_btc_price(answer) == IF answer = None THEN FallbackPrice ELSE answer

\* lines 259-277: load, number the trigger, fetch the price, send the broker
\* and the personal e-mail
ManualNotify ==
    /\ tpc = "idle"
    /\ runs < MaxManualRuns
    /\ runs' = runs + 1
    /\ tstate' = manual_load_state(file)
    /\ tcur' = manual_load_state(file).trigger_count + 1
    /\ \E answer \in ManualTickerAnswers : tprice' = get_btc_price(answer)
    /\ emails' = send_email(send_email(emails, "broker", tcur', "manual", FALSE),
                            "personal", tcur', "manual", FALSE)
    /\ tpc' = "save"
    /\ UNCHANGED <<today, dipday, file, mainVars, faults, commits, cut>>

\* lines 280-289: the update and trigger_now.save_state, which catches
\* nothing: the script ends after the write, failed or not; on a dict
\* without "trigger_history" line 282 raises KeyError and the script ends
\* before the write
ManualSave ==
    /\ tpc = "save"
    /\ IF "trigger_history" \notin DOMAIN tstate
          THEN UNCHANGED <<file, commits, faults>>
          ELSE \/ /\ file' = GoodFile(ManualFired(tstate, tcur, today, tprice))
                  /\ commits' = commits + 1
                  /\ faults' = faults
               \/ /\ faults < MaxFaults
                  /\ file' \in WriteFailures(file)
                  /\ faults' = faults + 1
                  /\ commits' = commits
    /\ tpc' = "idle"
    /\ tstate' = default_state
    /\ tcur' = 0
    /\ tprice' = None
    /\ UNCHANGED <<today, dipday, mainVars, runs, emails, cut>>

Monitor ==
    \/ MainStart
    \/ CheckAndTriggerLoad
    \/ CheckAndTriggerRef
    \/ CheckAndTriggerPrice
    \/ CheckAndTriggerEval
    \/ CheckDailyCloseLoad
    \/ CheckDailyCloseCandle
    \/ CheckDailyCloseFetch
    \/ SendBroker
    \/ SendPersonal
    \/ SendCompletion
    \/ LoopRecheck
    \/ Crash
    \/ Restart

Manual ==
    \/ ManualNotify
    \/ ManualSave

Next == Tick \/ Monitor \/ Manual

\* both processes, the clock, crashes and failed writes
Spec == Init /\ [][Next]_vars

\* the monitoring process alone: the manual script is never run
MonitorSpec == Init /\ [][Tick \/ Monitor]_vars

(***************************************************************************)
(* Properties                                                              *)
(***************************************************************************)
\* the history in the state file
History == load_state(file).trigger_history

\* the e-mail attempts of one kind
EmailsTo(kind) == {e \in emails : e.to = kind}

\* C1: in every persisted state trigger_count is at most MAX_TRIGGERS.
C1_CountNeverExceedsMax ==
    file.status = "ok" => file.data.trigger_count <= MAX_TRIGGERS

\* C2: in every persisted state trigger_history holds at most one record per
\* UTC date.
C2_OneRecordPerDate ==
    \A i, j \in 1..Len(History) :
        i < j => History[i].date # History[j].date

\* C3: after N trigger executions whose write succeeded, the persisted state
\* has trigger_count = N and N history entries, the i-th numbered i.
C3_CountIsExecutions ==
    file.status = "ok" =>
        /\ file.data.trigger_count = commits
        /\ Len(History) = commits
        /\ \A i \in 1..Len(History) : History[i].number = i

\* C4: every notification attempted for a trigger comes after the sending
\* process wrote that trigger to the state file.
C4_PersistBeforeNotify == \A e \in emails : e.saved

\* C5: when the write inside execute_trigger fails, the monitoring process
\* attempts no notification for that trigger.
C5_FailedSaveAborts == \A e \in emails : e.by = "main" => e.saved

\* the state holds the trigger c
Includes(state, c) ==
    /\ state.trigger_count >= c.number
    /\ \E i \in 1..Len(state.trigger_history) :
          /\ state.trigger_history[i].number = c.number
          /\ state.trigger_history[i].date = c.date

\* C6: when the monitoring process ends after execute_trigger persisted a
\* trigger and before its notifications are over, the state loaded afterwards
\* holds that trigger, and for the rest of that UTC date no cycle passes the
\* guards and nothing is written.
C6_CrashAfterPersist ==
    [][cut.number > 0 =>
          /\ Includes(load_state(file), cut)
          /\ cut.date = today =>
                /\ file' = file
                /\ commits' = commits
                /\ emails' = emails
                /\ mpc' \in {"dead", "start", "check", "pending", "exited"}]_vars

\* C6 witness: after such a crash and the restart, a cycle of the same date
\* ended at the dedup guard.
C6_Witness ==
    /\ cut.number > 0
    /\ cut.date = today
    /\ mpc = "pending"
    /\ mlog = "already"

\* C7: no e-mail carries a number above MAX_TRIGGERS, a completion e-mail is
\* attempted at most once and only for trigger MAX_TRIGGERS, and a trigger
\* MAX_TRIGGERS recorded in the state file has had its completion e-mail
\* attempted once the process that fired it is through.
C7_CompletionExactlyOnce ==
    /\ \A e \in emails : e.number <= MAX_TRIGGERS
    /\ Cardinality(EmailsTo("completion")) <= 1
    /\ \A e \in EmailsTo("completion") : e.number = MAX_TRIGGERS
    /\ (/\ tpc = "idle"
        /\ Len(History) >= MAX_TRIGGERS
        /\ History[MAX_TRIGGERS].type = "Manual trigger")
          => EmailsTo("completion") # {}

\* C8: a cycle invoked on a persisted state with trigger_count >=
\* MAX_TRIGGERS returns at the terminal guard, before the dedup guard, and
\* changes nothing: no write, no trigger, no e-mail.
C8_TerminalGuardBlocks ==
    [][(/\ mpc \in {"check", "pending"}
        /\ load_state(file).trigger_count >= MAX_TRIGGERS
        /\ mainVars' # mainVars
        /\ mpc' # "dead")
          => /\ \/ mpc' = "pending" /\ mlog' = "complete"
                \/ mpc' = "exited" /\ mlog' = mlog
             /\ mstate' = default_state
             /\ UNCHANGED <<file, emails, commits>>]_vars

\* C8 witness: a cycle ended at the terminal guard on a complete state whose
\* last trigger is of the current date.
C8_Witness ==
    /\ mlog = "complete"
    /\ mpc = "pending"
    /\ load_state(file).trigger_count >= MAX_TRIGGERS
    /\ load_state(file).last_trigger_date = today

\* C9: a cycle invoked on a persisted state whose last_trigger_date is the
\* current UTC date does not fire: it returns at a guard, whatever the
\* prices, with no write, no trigger and no e-mail.
C9_DedupGuardBlocks ==
    [][(/\ mpc \in {"check", "pending"}
        /\ load_state(file).last_trigger_date = today
        /\ mainVars' # mainVars
        /\ mpc' # "dead")
          => /\ \/ mpc' = "pending" /\ mlog' \in {"already", "complete"}
                \/ mpc' = "exited" /\ mlog' = mlog
             /\ load_state(file).trigger_count < MAX_TRIGGERS
                   => mpc' = "pending" /\ mlog' = "already"
             /\ mstate' = default_state
             /\ UNCHANGED <<file, emails, commits>>]_vars

\* C9 witness: a cycle ended at the dedup guard on the date of the last
\* trigger, below MAX_TRIGGERS.
C9_Witness ==
    /\ mlog = "already"
    /\ mpc = "pending"
    /\ load_state(file).trigger_count < MAX_TRIGGERS
    /\ load_state(file).last_trigger_date = today

\* C10: the manual script records no trigger beyond MAX_TRIGGERS and none on
\* a date that already has a record.
C10_ManualRespectsGuards ==
    \A i \in 1..Len(History) :
        History[i].type = "Manual trigger" =>
            /\ History[i].number <= MAX_TRIGGERS
            /\ \A j \in 1..(i - 1) : History[j].date # History[i].date

\* C11: when the manual script runs concurrently with a monitoring cycle, no
\* update is lost: while no write has failed, the persisted trigger_count and
\* trigger_history account for every trigger either process wrote.
C11_NoLostUpdate ==
    faults = 0 =>
        /\ load_state(file).trigger_count >= commits
        /\ Len(History) >= commits

\* C12: save_state is all-or-nothing: after every step that touches the state
\* file, a load_state returns the state it returned before the step or the
\* complete state the step wrote, never the defaults of an unreadable file.
C12_SaveAllOrNothing ==
    [][\/ load_state(file') = load_state(file)
       \/ file'.status = "ok"]_vars

\* C13: the trigger_count that load_state observes never decreases, across
\* cycles, failed or interrupted saves, unreadable files and restarts.
C13_CountMonotonic ==
    [][load_state(file').trigger_count >= load_state(file).trigger_count]_vars

\* C14: when the guards passed and both the reference close and the current
\* price are available, check_and_trigger fires if and only if the drop
\* (current_price - reference_close) / reference_close * 100 is at or below
\* INTRADAY_DIP_THRESHOLD, the boundary included.
C14_IntradayThresholdInclusive ==
    [][(/\ mpc = "cat_eval"
        /\ myclose > 0
        /\ mainVars' # mainVars
        /\ mpc' # "dead")
          => (mpc' = "broker" <=>
                (mprice - myclose) * 1000 <= INTRADAY_DIP_THRESHOLD * myclose)]_vars

\* C15: check_daily_close fires only on a daily candle that has closed, and a
\* daily-close check whose guards passed and whose price requests answered
\* evaluates the completed daily close against CLOSE_TO_CLOSE_THRESHOLD (the
\* previous day's candle has closed at every checkpoint): it never ends on
\* the ground that the candle has not closed.
C15_DailyCloseEvaluated ==
    [][(/\ mpc = "cdc_eval"
        /\ mainVars' # mainVars
        /\ mpc' # "dead")
          => /\ mpc' = "broker" => mcday < today
             /\ mlog' # "unfinished"]_vars

\* the last record of a history
LastRecord(history) == history[Len(history)]

\* C16: no trigger is fired in a cycle whose reference close is unavailable:
\* check_and_trigger and check_daily_close then end with the state file, the
\* e-mails and the trigger writes as they were; a cycle goes on to the price
\* only with a reference close, and every record execute_trigger makes
\* carries one.
C16_NoFireWithoutReference ==
    [][/\ (mpc \in {"cat_ref", "cdc_eval"} /\ mlog' \in {"noref", "noref_daily"})
            => mpc' = "pending" /\ UNCHANGED <<file, emails, commits>>
       /\ mpc' = "cat_price" => myclose' # None
       /\ (mpc' = "broker" /\ mpc # "broker")
            => LastRecord(mstate'.trigger_history).yesterday_close # None]_vars

\* C16 witness: a daily-close check that had a completed close ended for
\* lack of the reference close.
C16_Witness ==
    /\ mpc = "pending"
    /\ mlog = "noref_daily"
    /\ load_state(file).trigger_count > 0

\* C17: a non-positive current price or reference close is rejected: the
\* cycle does not go on with it and no record carries it; and no record
\* carries a price substituted for a failed request.
C17_InvalidPricesRejected ==
    /\ mpc \in {"cat_price", "cat_eval"} => myclose > 0
    /\ mpc = "cat_eval" => mprice > 0
    /\ \A i \in 1..Len(History) :
          /\ History[i].price > 0
          /\ History[i].price # FallbackPrice
          /\ "yesterday_close" \in DOMAIN History[i]
                => History[i].yesterday_close > 0

\* C18: a notification failure after the state write does not alter the
\* persisted state: no step of execute_trigger from the broker e-mail on
\* writes the state file, whatever send_email returned, and after a failed
\* send the file still holds the trigger that was written.
C18_NotifyFailureKeepsState ==
    [][(mpc \in ExecPcs /\ mainVars' # mainVars)
          => /\ file' = file
             /\ commits' = commits
             /\ (msaved /\ mfail)
                   => Includes(load_state(file'),
                               [number |-> mnum,
                                date |-> mstate.last_trigger_date])]_vars

\* C18 witness: the broker or the personal e-mail of the last trigger failed
\* after its write, and the completion e-mail is next.
C18_Witness ==
    /\ mpc = "completion"
    /\ mfail
    /\ msaved
    /\ load_state(file).trigger_count = mnum

\* the fields only a trigger may change
TriggerFields(state) ==
    <<state.trigger_count, state.last_trigger_date, state.trigger_history>>

\* C19: a step of check_and_trigger or check_daily_close that does not fire
\* leaves the persisted trigger_count, last_trigger_date and trigger_history
\* unchanged; it may change yesterday_close and yesterday_close_date only.
C19_NoFireLeavesTriggers ==
    [][(/\ mpc \in {"check", "pending", "cat_ref", "cat_price", "cat_eval",
                    "cdc_fetch", "cdc_eval"}
        /\ mainVars' # mainVars
        /\ mpc' # "broker")
          => TriggerFields(load_state(file')) = TriggerFields(load_state(file))]_vars

\* C20: in every persisted state last_trigger_date is absent exactly when
\* trigger_history is empty, and otherwise it is the date of the last entry
\* of trigger_history.
C20_LastDateIsLastRecord ==
    LET state == load_state(file) IN
        /\ state.last_trigger_date = None <=> state.trigger_history = <<>>
        /\ state.trigger_history # <<>>
              => state.last_trigger_date = LastRecord(state.trigger_history).date

\* C20 witness: a state file whose history ends with a manual trigger of the
\* second day, written after triggers of earlier days.
C20_Witness ==
    /\ file.status = "ok"
    /\ Len(History) >= 2
    /\ LastRecord(History).type = "Manual trigger"
    /\ LastRecord(History).date = MaxDay
    /\ History[Len(History) - 1].date < MaxDay

\* C21: load_state never fails on a state file with fields missing, and
\* every operation that loads the state proceeds on such a file: a run of the
\* manual script whose write does not fail records its trigger.
C21_LoadBackfills ==
    [][(tpc = "save" /\ tpc' = "idle" /\ faults' = faults)
          => /\ commits' = commits + 1
             /\ load_state(file').trigger_count = tcur]_vars

\* C22: in check_and_trigger, when the guards passed and the fetched
\* reference close carries a newer date than the stored yesterday_close_date,
\* the fetched close and date are stored and persisted before the threshold
\* comparison, and the comparison uses the fetched close.
C22_RefreshBeforeEvaluation ==
    [][(/\ mpc = "cat_ref"
        /\ mpc' = "cat_price"
        /\ mstate.yesterday_close_date < today - 1)
          => /\ mstate'.yesterday_close = myclose'
             /\ mstate'.yesterday_close_date = today - 1
             /\ load_state(file').yesterday_close = myclose'
             /\ load_state(file').yesterday_close_date = today - 1]_vars

C24_NoFireOnceComplete ==
    [][load_state(file).trigger_count >= MAX_TRIGGERS
          => /\ ~(mpc # "broker" /\ mpc' = "broker")
             /\ mpc = "start" /\ mpc' # mpc => mpc' \in {"exited", "dead"}]_vars

\* C25: the drop of one daily candle produces at most one trigger: when an
\* intraday trigger was executed during day D, no close-to-close trigger is
\* executed for the candle of day D
C25_OneTriggerPerCandle ==
    [][(mpc = "cdc_eval" /\ mpc' = "broker") => dipday # mcday]_vars

\* C26: no trigger number appears on two broker buy-order e-mails, and no more
\* than MAX_TRIGGERS broker buy-order e-mails are attempted: every broker
\* e-mail is the first one with its number and its number is in
\* 1..MAX_TRIGGERS
C26_BrokerOrdersDistinct ==
    \A e \in EmailsTo("broker") :
        /\ e.copy = 0
        /\ e.number \in 1..MAX_TRIGGERS

\* C27: the date recorded for a fire (last_trigger_date and the record's
\* date) equals the date the same cycle used for its dedup check, also when
\* the day rolls over between the check and the execution
C27_FireDateIsGuardDate ==
    [][(mpc \in {"cat_eval", "cdc_eval"} /\ mpc' = "broker")
          => /\ mstate'.last_trigger_date = mtoday
             /\ LastRecord(mstate'.trigger_history).date = mtoday]_vars

\* the fields execute_trigger writes into a record, lines 564-572
RecordFields ==
    {"number", "date", "time", "price", "yesterday_close", "drop_pct", "type"}

\* C28: every record of the persisted trigger_history carries the full field
\* set written by execute_trigger, so that send_completion_email finds the
\* keys it reads in every record when it runs
C28_RecordsComplete ==
    /\ \A i \in 1..Len(History) : RecordFields \subseteq DOMAIN History[i]
    /\ mpc = "completion"
          => \A i \in 1..Len(History) : CompletionKeys \subseteq DOMAIN History[i]

====
